---- MODULE Spec2Model ----
(***************************************************************************)
(* Model of src/src/bindings_nanobind.cpp: the bridge between in-memory    *)
(* vertex/face arrays and the file-based Instant Meshes batch engine.      *)
(*                                                                         *)
(* Two families of specifications:                                         *)
(*   Spec, SpecMT : the orchestration (remesh, remesh_file, TempFile,      *)
(*                  generate_temp_filename) over an abstract file system.  *)
(*                  Spec runs the calls of one thread; SpecMT runs calls   *)
(*                  of several threads interleaved at every access to the  *)
(*                  file system, the clock and the shared generator.       *)
(*   SpecEnv      : the remesh calls of one thread under every setting of  *)
(*                  the temp-directory environment variables.              *)
(*   SpecIO       : write_temp_mesh and read_temp_mesh statement by        *)
(*                  statement over concrete arrays and file records.       *)
(*   SpecRead     : read_temp_mesh on any mesh a loader may hand over.     *)
(***************************************************************************)
EXTENDS Integers, Sequences, FiniteSets, TLC

(***************************************************************************)
(* Bounds of the model.                                                    *)
(***************************************************************************)
\* calls started in one behaviour
MaxCalls == 2
\* last value of the system clock (timestamp ticks)
MaxClock == 1

(***************************************************************************)
(* Orchestration: data.                                                    *)
(***************************************************************************)
Threads == {"t1", "t2"}
MainThread == "t1"

\* values of std::hash<std::thread::id>: no injectivity is promised
HashVals == {"h1", "h2"}

\* values the 64-bit generator can return
RandVals == {0, 1}

\* environment: each variable is a sequence, empty when the variable is unset
\* (std::getenv returns a null pointer), else holding the variable's value;
\* WIN32 tells whether the build defines _WIN32
EnvChoices ==
    { [TMPDIR |-> <<>>, TEMP |-> <<>>, TMP |-> <<>>, WIN32 |-> FALSE],
      [TMPDIR |-> <<"/var/tmp">>, TEMP |-> <<"/t">>, TMP |-> <<>>, WIN32 |-> FALSE] }

\* every combination of the three variables being unset or set, TMPDIR also
\* set to the empty string, on either platform
AllEnvs ==
    [ TMPDIR : { <<>>, <<"">>, <<"/var/tmp">> },
      TEMP : { <<>>, <<"/t">> },
      TMP : { <<>>, <<"/scratch">> },
      WIN32 : BOOLEAN ]

\* caller-supplied paths of remesh_file
UserPaths == { <<"a.obj">>, <<"b.obj">> }

NoPath == <<>>

\* the parameter record of one call, in the order of the bridge's signature
DefaultParams ==
    [ target_vertex_count |-> -1, target_face_count |-> -1,
      target_edge_length |-> -1, rosy |-> 4, posy |-> 4,
      crease_angle |-> -1, extrinsic |-> FALSE, align_to_boundaries |-> FALSE,
      smooth_iterations |-> 2, knn_points |-> 10, pure_quad |-> FALSE,
      deterministic |-> FALSE ]

\* every numeric slot holds a value no other slot holds
OtherParams ==
    [ target_vertex_count |-> 100, target_face_count |-> 200,
      target_edge_length |-> 3, rosy |-> 6, posy |-> 5,
      crease_angle |-> 30, extrinsic |-> TRUE, align_to_boundaries |-> FALSE,
      smooth_iterations |-> 0, knn_points |-> 7, pure_quad |-> TRUE,
      deterministic |-> FALSE ]

\* out-of-range values: nothing in the bridge looks at them
OddParams ==
    [ target_vertex_count |-> 0, target_face_count |-> -5,
      target_edge_length |-> -2, rosy |-> 3, posy |-> 7,
      crease_angle |-> 400, extrinsic |-> FALSE, align_to_boundaries |-> TRUE,
      smooth_iterations |-> -1, knn_points |-> -3, pure_quad |-> FALSE,
      deterministic |-> TRUE ]

ParamChoices == { DefaultParams, OtherParams, OddParams }

\* shapes a caller can pass: (ndim, columns) of vertices and of faces
VertexShapes == { [ndim |-> 2, cols |-> 3], [ndim |-> 2, cols |-> 2] }
FaceShapes == { [ndim |-> 2, cols |-> 3], [ndim |-> 2, cols |-> 4],
                [ndim |-> 2, cols |-> 5], [ndim |-> 1, cols |-> 0] }

VARIABLES
    fs,           \* the file system: path -> content, for the files that exist
    clock,        \* std::chrono::system_clock, in ticks
    env,          \* the process environment
    thread_hash,  \* std::hash<std::thread::id> of each thread
    nprocs,       \* the process-wide thread-count setting
    gen,          \* the static generator: values drawn from it so far
    ncalls,       \* calls started so far
    pc,           \* per thread: position in the running call
    call          \* per thread: the running call's arguments, locals and log

ovars == << fs, clock, env, thread_hash, nprocs, gen, ncalls, pc, call >>

\* write_temp_mesh and read_temp_mesh, statement by statement
VARIABLES
    vertices,       \* the caller's vertex array: [shape, rows]
    faces,          \* the caller's face array: [shape, rows]
    out,            \* the lines written to the mesh file so far
    io_pc,          \* position in write_temp_mesh / read_temp_mesh
    row,            \* the running index i of the current loop
    V,              \* the loader's vertex matrix (one column per vertex)
    F,              \* the loader's face matrix (one column per face)
    vertices_data,  \* new float[num_vertices * 3]: index -> value written
    faces_data,     \* new int[num_faces * face_dim]: index -> value written
    ret             \* the arrays handed to the caller

iovars == << vertices, faces, out, io_pc, row, V, F, vertices_data, faces_data, ret >>

vars == << ovars, iovars >>

\* file contents: who wrote the file, in which call (0: before any call)
UserContent == << "user", 0 >>

NoCall ==
    [ kind |-> "none", id |-> 0,
      vshape |-> <<>>, fshape |-> <<>>, params |-> <<>>,
      input_path |-> NoPath, output_path |-> NoPath,
      raised |-> "none", failed |-> "none", result |-> <<>>,
      engine_calls |-> <<>>, steps |-> <<>>, writes |-> {}, removes |-> <<>>,
      before |-> <<>> ]

\* the fields of a call record that log what the call did:
\*   steps        : the steps started, in order
\*   engine_calls : what batch_process received, once per invocation
\*   writes       : (writer, path) of every file the call created or rewrote
\*   removes      : (path, outcome) of every std::remove, in order
\*   before       : the file system when a remesh_file call started
StepOrder ==
    << "generate_input", "generate_output", "serialize", "engine", "deserialize" >>

(***************************************************************************)
(* get_temp_dir, lines 49-62: first of TMPDIR, TEMP, TMP that is set, else  *)
(* "C:\Temp" where _WIN32 is defined and "/tmp" elsewhere.                 *)
(***************************************************************************)
\* (mutant) TEMP is looked up before TMPDIR
get_temp_dir_temp_first(e) ==
    IF e.TEMP # <<>> THEN e.TEMP[1]
    ELSE IF e.TMPDIR # <<>> THEN e.TMPDIR[1]
    ELSE IF e.TMP # <<>> THEN e.TMP[1]
    ELSE IF e.WIN32 THEN "C:\\Temp" ELSE "/tmp"

get_temp_dir(e) ==
    IF e.TMPDIR # <<>> THEN e.TMPDIR[1]
    ELSE IF e.TEMP # <<>> THEN e.TEMP[1]
    ELSE IF e.TMP # <<>> THEN e.TMP[1]
    ELSE IF e.WIN32 THEN "C:\\Temp" ELSE "/tmp"

(***************************************************************************)
(* generate_temp_filename: the ostringstream concatenation, one element    *)
(* per inserted item.  thread_id is the hash of the calling thread,        *)
(* timestamp the clock reading, random_num the value drawn from gen.       *)
(***************************************************************************)
\* (mutant) the thread identity is left out of the name
generate_temp_filename_no_thread(prefix, extension, temp_dir, thread_id, timestamp, random_num) ==
    << temp_dir, "/", prefix, "_", timestamp, "_", random_num, extension >>

generate_temp_filename(prefix, extension, temp_dir, thread_id, timestamp, random_num) ==
    << temp_dir, "/", prefix, "_", thread_id, "_", timestamp, "_", random_num, extension >>

(***************************************************************************)
(* File-system primitives.                                                 *)
(***************************************************************************)
Exists(path) == path \in DOMAIN fs

\* std::ofstream out(filename) followed by the writes and close(): the file is
\* created, or truncated and rewritten
FileWritten(path, content) ==
    [ p \in DOMAIN fs \cup {path} |-> IF p = path THEN content ELSE fs[p] ]

\* std::remove on an existing file that the system lets go
FileRemoved(path) == [ p \in DOMAIN fs \ {path} |-> fs[p] ]

Log(t, step) == Append(call[t].steps, step)

(***************************************************************************)
(* remesh, lines 169-191: argument conversion by the binding layer (the    *)
(* ndarray annotations of the signature) and the two shape checks.         *)
(* Yields the Python exception raised, or "none".                          *)
(***************************************************************************)
remesh_validate(vshape, fshape) ==
    IF vshape.ndim # 2 \/ vshape.cols # 3 \/ fshape.ndim # 2
    THEN "TypeError"       \* nb::shape<nb::any, 3> / nb::shape<nb::any, nb::any>
    ELSE IF fshape.cols # 3 /\ fshape.cols # 4
    THEN "RuntimeError"    \* throw std::runtime_error("Faces must be ...")
    ELSE "none"

remesh(t, vshape, fshape, params) ==
    /\ pc[t] = "idle"
    /\ ncalls < MaxCalls
    /\ ncalls' = ncalls + 1
    /\ LET err == remesh_validate(vshape, fshape)
           c == [ NoCall EXCEPT !.kind = "remesh", !.id = ncalls + 1,
                                !.vshape = vshape, !.fshape = fshape,
                                !.params = params ]
       IN IF err # "none"
          THEN /\ call' = [call EXCEPT ![t] =
                             [c EXCEPT !.raised = err, !.failed = "validate"]]
               /\ pc' = [pc EXCEPT ![t] = "done"]
          ELSE /\ call' = [call EXCEPT ![t] = c]
               /\ pc' = [pc EXCEPT ![t] = "gen_in"]
    /\ UNCHANGED << fs, clock, env, thread_hash, nprocs, gen >>
    /\ UNCHANGED iovars


(***************************************************************************)
(* Exception unwinding in remesh: the TempFile locals that exist when a    *)
(* step throws are destroyed in reverse order of construction.             *)
(*   "generate_input"  : no TempFile exists yet                            *)
(*   "generate_output" : input_file exists                                 *)
(*   later steps       : output_file, then input_file                      *)
(***************************************************************************)
\* (mutant) an exception leaves remesh without running the destructors
Unwind_no_dtor(step) == "done"

Unwind(step) ==
    CASE step = "generate_input"  -> "done"
      [] step = "generate_output" -> "dtor_in"
      [] OTHER                    -> "dtor_out"

Throw(t, step, exc, next) ==
    /\ call' = [call EXCEPT ![t].raised = exc, ![t].failed = step,
                            ![t].steps = Log(t, step)]
    /\ pc' = [pc EXCEPT ![t] = next]

(***************************************************************************)
(* remesh, line 194: TempFile input_file(generate_temp_filename(...)).     *)
(* timestamp is the reading of system_clock::now(), not before the last    *)
(* reading; random_num is the value gen() returns: any value, the seed     *)
(* coming from std::random_device and concurrent draws being unordered.    *)
(* Each draw advances the static generator.                                *)
(* ok = FALSE: building the string throws (std::bad_alloc), before the     *)
(* draw (line 70) or after it (lines 77-81).                               *)
(***************************************************************************)
remesh_gen_input(t, ok, timestamp, random_num) ==
    /\ pc[t] = "gen_in"
    /\ timestamp >= clock
    /\ IF ok
       THEN /\ call' = [call EXCEPT
                 ![t].input_path =
                     generate_temp_filename("pyim_input", ".obj", get_temp_dir(env),
                                            thread_hash[t], timestamp, random_num),
                 ![t].steps = Log(t, "generate_input")]
            /\ pc' = [pc EXCEPT ![t] = "gen_out"]
            /\ clock' = timestamp
            /\ gen' = gen + 1
       ELSE /\ Throw(t, "generate_input", "MemoryError", Unwind("generate_input"))
            /\ clock' = clock
            /\ gen' \in { gen, gen + 1 }
    /\ UNCHANGED << fs, env, thread_hash, nprocs, ncalls >>
    /\ UNCHANGED iovars

(***************************************************************************)
(* remesh, line 195: TempFile output_file(generate_temp_filename(...)).    *)
(***************************************************************************)
remesh_gen_output(t, ok, timestamp, random_num) ==
    /\ pc[t] = "gen_out"
    /\ timestamp >= clock
    /\ IF ok
       THEN /\ call' = [call EXCEPT
                 ![t].output_path =
                     generate_temp_filename("pyim_output", ".obj", get_temp_dir(env),
                                            thread_hash[t], timestamp, random_num),
                 ![t].steps = Log(t, "generate_output")]
            /\ pc' = [pc EXCEPT ![t] = "write"]
            /\ clock' = timestamp
            /\ gen' = gen + 1
       ELSE /\ Throw(t, "generate_output", "MemoryError", Unwind("generate_output"))
            /\ clock' = clock
            /\ gen' \in { gen, gen + 1 }
    /\ UNCHANGED << fs, env, thread_hash, nprocs, ncalls >>
    /\ UNCHANGED iovars

(***************************************************************************)
(* write_temp_mesh as the orchestration sees it (lines 92-95, 114):        *)
(* the open fails and throws, or the file is created and written.          *)
(* The records written are modelled in SpecIO.                             *)
(***************************************************************************)
\* (mutant) the failed open is noticed but the call goes on to the engine
remesh_write_goes_on(t, ok) ==
    /\ pc[t] = "write"
    /\ IF ok
       THEN /\ fs' = FileWritten(call[t].input_path, << "mesh", call[t].id >>)
            /\ call' = [call EXCEPT
                 ![t].steps = Log(t, "serialize"),
                 ![t].writes = @ \cup { << "write_temp_mesh", call[t].input_path >> }]
            /\ pc' = [pc EXCEPT ![t] = "engine"]
       ELSE /\ fs' = fs
            /\ Throw(t, "serialize", "RuntimeError", "engine")
    /\ UNCHANGED << clock, env, thread_hash, nprocs, gen, ncalls >>
    /\ UNCHANGED iovars

remesh_write(t, ok) ==
    /\ pc[t] = "write"
    /\ IF ok
       THEN /\ fs' = FileWritten(call[t].input_path, << "mesh", call[t].id >>)
            /\ call' = [call EXCEPT
                 ![t].steps = Log(t, "serialize"),
                 ![t].writes = @ \cup { << "write_temp_mesh", call[t].input_path >> }]
            /\ pc' = [pc EXCEPT ![t] = "engine"]
       ELSE /\ fs' = fs
            /\ Throw(t, "serialize", "RuntimeError", Unwind("serialize"))
    /\ UNCHANGED << clock, env, thread_hash, nprocs, gen, ncalls >>
    /\ UNCHANGED iovars

(***************************************************************************)
(* The Mesh Processing Engine (batch.h, outside src/): what it receives,   *)
(* slot by slot, and what it does to the file system.                      *)
(***************************************************************************)
batch_process(input, output, rosy, posy, target_edge_length, target_face_count, target_vertex_count, crease_angle, extrinsic, align_to_boundaries, smooth_iterations, knn_points, pure_quad, deterministic) ==
    [ input |-> input, output |-> output, rosy |-> rosy, posy |-> posy,
      target_edge_length |-> target_edge_length,
      target_face_count |-> target_face_count,
      target_vertex_count |-> target_vertex_count,
      crease_angle |-> crease_angle, extrinsic |-> extrinsic,
      align_to_boundaries |-> align_to_boundaries,
      smooth_iterations |-> smooth_iterations, knn_points |-> knn_points,
      pure_quad |-> pure_quad, deterministic |-> deterministic ]

\* the engine reads its input file and throws when that is missing; otherwise
\* it fails on its own account (ok = FALSE) or writes the output file
batch_process_succeeds(input, ok) == Exists(input) /\ ok

(***************************************************************************)
(* remesh, lines 201-205: the call of batch_process.                       *)
(***************************************************************************)
\* (mutant) the two target counts change places
remesh_engine_args_swapped(c) ==
    batch_process(c.input_path, c.output_path,
                  c.params.rosy, c.params.posy, c.params.target_edge_length,
                  c.params.target_vertex_count, c.params.target_face_count,
                  c.params.crease_angle, c.params.extrinsic,
                  c.params.align_to_boundaries,
                  c.params.smooth_iterations, c.params.knn_points,
                  c.params.pure_quad, c.params.deterministic)

remesh_engine_args(c) ==
    batch_process(c.input_path, c.output_path,
                  c.params.rosy, c.params.posy, c.params.target_edge_length,
                  c.params.target_face_count, c.params.target_vertex_count,
                  c.params.crease_angle, c.params.extrinsic,
                  c.params.align_to_boundaries,
                  c.params.smooth_iterations, c.params.knn_points,
                  c.params.pure_quad, c.params.deterministic)

remesh_engine(t, ok) ==
    /\ pc[t] = "engine"
    /\ LET c == call[t]
           logged == [c EXCEPT !.engine_calls = Append(@, remesh_engine_args(c)),
                               !.steps = Append(@, "engine")]
       IN IF batch_process_succeeds(c.input_path, ok)
          THEN /\ fs' = FileWritten(c.output_path, << "remeshed", c.id >>)
               /\ call' = [call EXCEPT ![t] =
                     [logged EXCEPT !.writes = @ \cup { << "batch_process", c.output_path >> }]]
               /\ pc' = [pc EXCEPT ![t] = "read"]
          ELSE /\ fs' = fs
               /\ call' = [call EXCEPT ![t] =
                     [logged EXCEPT !.raised = "RuntimeError", !.failed = "engine"]]
               /\ pc' = [pc EXCEPT ![t] = Unwind("engine")]
    /\ UNCHANGED << clock, env, thread_hash, nprocs, gen, ncalls >>
    /\ UNCHANGED iovars

(***************************************************************************)
(* read_temp_mesh as the orchestration sees it (lines 120-164): the loader *)
(* throws (file missing or malformed) or an allocation throws, or the      *)
(* arrays are built from the file's content.                               *)
(***************************************************************************)
read_temp_mesh_succeeds(path, ok) == Exists(path) /\ ok

\* (mutant) the arrays are built only after the call has left remesh
remesh_read_deferred(t, ok) ==
    /\ pc[t] = "read"
    /\ call' = [call EXCEPT ![t].steps = Log(t, "deserialize")]
    /\ pc' = [pc EXCEPT ![t] = "dtor_out"]
    /\ UNCHANGED << fs, clock, env, thread_hash, nprocs, gen, ncalls >>
    /\ UNCHANGED iovars

remesh_read(t, ok) ==
    /\ pc[t] = "read"
    /\ LET c == call[t]
       IN IF read_temp_mesh_succeeds(c.output_path, ok)
          THEN call' = [call EXCEPT ![t].result = << fs[c.output_path] >>,
                                    ![t].steps = Log(t, "deserialize")]
          ELSE call' = [call EXCEPT ![t].raised = "RuntimeError",
                                    ![t].failed = "deserialize",
                                    ![t].steps = Log(t, "deserialize")]
    /\ pc' = [pc EXCEPT ![t] = "dtor_out"]
    /\ UNCHANGED << fs, clock, env, thread_hash, nprocs, gen, ncalls >>
    /\ UNCHANGED iovars

(***************************************************************************)
(* TempFile::~TempFile, lines 37-41: std::remove(path), result ignored.    *)
(* The file is absent, or it is removed, or the system refuses (ok=FALSE). *)
(* output_file is destroyed first, input_file second.                      *)
(***************************************************************************)
std_remove(path, ok) ==
    IF ~Exists(path) THEN "absent"
    ELSE IF ok THEN "removed" ELSE "refused"

\* (mutant) a removal the system refuses is reported as an error of the call
TempFile_dtor_reports(t, ok) ==
    /\ pc[t] \in {"dtor_out", "dtor_in"}
    /\ LET path == IF pc[t] = "dtor_out" THEN call[t].output_path
                                         ELSE call[t].input_path
           outcome == std_remove(path, ok)
       IN /\ path # NoPath
          /\ fs' = IF outcome = "removed" THEN FileRemoved(path) ELSE fs
          /\ call' = [call EXCEPT
                ![t].removes = Append(@, << path, outcome >>),
                ![t].raised = IF outcome = "refused" THEN "OSError" ELSE @,
                ![t].result = IF outcome = "refused" THEN <<>> ELSE @]
    /\ pc' = [pc EXCEPT ![t] = IF pc[t] = "dtor_out" THEN "dtor_in" ELSE "done"]
    /\ UNCHANGED << clock, env, thread_hash, nprocs, gen, ncalls >>
    /\ UNCHANGED iovars

TempFile_dtor(t, ok) ==
    /\ pc[t] \in {"dtor_out", "dtor_in"}
    /\ LET path == IF pc[t] = "dtor_out" THEN call[t].output_path
                                         ELSE call[t].input_path
           outcome == std_remove(path, ok)
       IN /\ path # NoPath
          /\ fs' = IF outcome = "removed" THEN FileRemoved(path) ELSE fs
          /\ call' = [call EXCEPT ![t].removes = Append(@, << path, outcome >>)]
    /\ pc' = [pc EXCEPT ![t] = IF pc[t] = "dtor_out" THEN "dtor_in" ELSE "done"]
    /\ UNCHANGED << clock, env, thread_hash, nprocs, gen, ncalls >>
    /\ UNCHANGED iovars

(***************************************************************************)
(* remesh_file, lines 214-238.                                             *)
(***************************************************************************)
\* (mutant) the call sets the thread count for its engine run
remesh_file_sets_nprocs(t, input_path, output_path, params) ==
    /\ pc[t] = "idle"
    /\ ncalls < MaxCalls
    /\ ncalls' = ncalls + 1
    /\ call' = [call EXCEPT ![t] =
          [ NoCall EXCEPT !.kind = "remesh_file", !.id = ncalls + 1,
                          !.params = params, !.before = fs,
                          !.input_path = input_path, !.output_path = output_path ]]
    /\ pc' = [pc EXCEPT ![t] = "f_engine"]
    /\ nprocs' = 1
    /\ UNCHANGED << fs, clock, env, thread_hash, gen >>
    /\ UNCHANGED iovars

remesh_file(t, input_path, output_path, params) ==
    /\ pc[t] = "idle"
    /\ ncalls < MaxCalls
    /\ ncalls' = ncalls + 1
    /\ call' = [call EXCEPT ![t] =
          [ NoCall EXCEPT !.kind = "remesh_file", !.id = ncalls + 1,
                          !.params = params, !.before = fs,
                          !.input_path = input_path, !.output_path = output_path ]]
    /\ pc' = [pc EXCEPT ![t] = "f_engine"]
    /\ UNCHANGED << fs, clock, env, thread_hash, nprocs, gen >>
    /\ UNCHANGED iovars

remesh_file_engine_args(c) ==
    batch_process(c.input_path, c.output_path,
                  c.params.rosy, c.params.posy, c.params.target_edge_length,
                  c.params.target_face_count, c.params.target_vertex_count,
                  c.params.crease_angle, c.params.extrinsic,
                  c.params.align_to_boundaries,
                  c.params.smooth_iterations, c.params.knn_points,
                  c.params.pure_quad, c.params.deterministic)

remesh_file_engine(t, ok) ==
    /\ pc[t] = "f_engine"
    /\ LET c == call[t]
           logged == [c EXCEPT !.engine_calls = Append(@, remesh_file_engine_args(c)),
                               !.steps = Append(@, "engine")]
       IN IF batch_process_succeeds(c.input_path, ok)
          THEN /\ fs' = FileWritten(c.output_path, << "remeshed", c.id >>)
               /\ call' = [call EXCEPT ![t] =
                     [logged EXCEPT !.writes = @ \cup { << "batch_process", c.output_path >> }]]
               /\ pc' = [pc EXCEPT ![t] = "f_read"]
          ELSE /\ fs' = fs
               /\ call' = [call EXCEPT ![t] =
                     [logged EXCEPT !.raised = "RuntimeError", !.failed = "engine"]]
               /\ pc' = [pc EXCEPT ![t] = "done"]
    /\ UNCHANGED << clock, env, thread_hash, nprocs, gen, ncalls >>
    /\ UNCHANGED iovars

\* (mutant) output_path is treated like a temporary file and removed
remesh_file_read_removes(t, ok) ==
    /\ pc[t] = "f_read"
    /\ LET c == call[t]
       IN /\ IF read_temp_mesh_succeeds(c.output_path, ok)
             THEN call' = [call EXCEPT ![t].result = << fs[c.output_path] >>,
                                       ![t].steps = Log(t, "deserialize")]
             ELSE call' = [call EXCEPT ![t].raised = "RuntimeError",
                                       ![t].failed = "deserialize",
                                       ![t].steps = Log(t, "deserialize")]
          /\ fs' = FileRemoved(c.output_path)
    /\ pc' = [pc EXCEPT ![t] = "done"]
    /\ UNCHANGED << clock, env, thread_hash, nprocs, gen, ncalls >>
    /\ UNCHANGED iovars

\* (mutant) a failed load still hands arrays to the caller
remesh_file_read_partial(t, ok) ==
    /\ pc[t] = "f_read"
    /\ LET c == call[t]
       IN IF read_temp_mesh_succeeds(c.output_path, ok)
          THEN call' = [call EXCEPT ![t].result = << fs[c.output_path] >>,
                                    ![t].steps = Log(t, "deserialize")]
          ELSE call' = [call EXCEPT ![t].raised = "RuntimeError",
                                    ![t].failed = "deserialize",
                                    ![t].result = << UserContent >>,
                                    ![t].steps = Log(t, "deserialize")]
    /\ pc' = [pc EXCEPT ![t] = "done"]
    /\ UNCHANGED << fs, clock, env, thread_hash, nprocs, gen, ncalls >>
    /\ UNCHANGED iovars

remesh_file_read(t, ok) ==
    /\ pc[t] = "f_read"
    /\ LET c == call[t]
       IN IF read_temp_mesh_succeeds(c.output_path, ok)
          THEN call' = [call EXCEPT ![t].result = << fs[c.output_path] >>,
                                    ![t].steps = Log(t, "deserialize")]
          ELSE call' = [call EXCEPT ![t].raised = "RuntimeError",
                                    ![t].failed = "deserialize",
                                    ![t].steps = Log(t, "deserialize")]
    /\ pc' = [pc EXCEPT ![t] = "done"]
    /\ UNCHANGED << fs, clock, env, thread_hash, nprocs, gen, ncalls >>
    /\ UNCHANGED iovars

(***************************************************************************)
(* The call has returned to its caller (arrays or exception delivered);    *)
(* the thread is free for its next call.                                   *)
(***************************************************************************)
Return(t) ==
    /\ pc[t] = "done"
    /\ pc' = [pc EXCEPT ![t] = "idle"]
    /\ call' = [call EXCEPT ![t] = NoCall]
    /\ UNCHANGED << fs, clock, env, thread_hash, nprocs, gen, ncalls >>
    /\ UNCHANGED iovars

(***************************************************************************)
(* write_temp_mesh and read_temp_mesh over concrete arrays.                *)
(*                                                                         *)
(* A 32-bit float is modelled by its value; the values used are whole      *)
(* numbers of magnitude at most 2^24, all of which a float holds exactly.  *)
(* A number in the file is the text the stream insertion produces:         *)
(*   a float  : << sign, digits, exponent >>, read digits * 10^exponent,   *)
(*              digits without trailing zero                               *)
(*   an int   : << value >>                                                *)
(***************************************************************************)
\* digits std::ostream writes for a float unless told otherwise
Precision == 6
\* bits of the significand of a 32-bit float
MantissaBits == 24

\* rows and faces of the arrays the serializer is run on
MaxVerts == 2
MaxFaces == 2

RECURSIVE Pow(_, _)
Pow(b, n) == IF n = 0 THEN 1 ELSE b * Pow(b, n - 1)

Abs(n) == IF n < 0 THEN -n ELSE n

RECURSIVE NumDigits(_)
NumDigits(n) == IF n < 10 THEN 1 ELSE 1 + NumDigits(n \div 10)

RECURSIVE StripZeros(_, _)
StripZeros(m, e) ==
    IF m # 0 /\ m % 10 = 0 THEN StripZeros(m \div 10, e + 1) ELSE << m, e >>

\* out << float (line 102): %g with the stream's precision, round to nearest,
\* ties to even, trailing zeros dropped
FormatFloat(v) ==
    LET a  == Abs(v)
        d  == NumDigits(a)
        k  == IF d > Precision THEN d - Precision ELSE 0
        q  == a \div Pow(10, k)
        r  == a % Pow(10, k)
        up == 2 * r > Pow(10, k) \/ (2 * r = Pow(10, k) /\ q % 2 = 1)
        me == StripZeros(IF up THEN q + 1 ELSE q, k)
    IN << IF v < 0 THEN -1 ELSE 1, me[1], me[2] >>

\* the nearest 32-bit float of a whole number below 2^(MantissaBits+1)
RoundToFloat(n) ==
    LET a == Abs(n)
        s == IF n < 0 THEN -1 ELSE 1
    IN IF a <= Pow(2, MantissaBits) THEN n
       ELSE IF a % 2 = 0 THEN n
       ELSE IF (a + 1) % 4 = 0 THEN s * (a + 1) ELSE s * (a - 1)

\* line >> float in the loader: the float nearest to the number written
ParseFloat(tok) == RoundToFloat(tok[1] * tok[2] * Pow(10, tok[3]))

\* out << int (line 109)
FormatInt(n) == << n >>
ParseInt(tok) == tok[1]

\* array element access, 0-based as in the source
At(a, r, c) == a.rows[r + 1][c + 1]

HeaderLine ==
    [ kind |-> "#", items |-> << << "Generated mesh for Instant Meshes", "processing" >> >> ]

\* line 102: one vertex record
VertexLine(r) ==
    [ kind |-> "v",
      items |-> << FormatFloat(At(vertices, r, 0)), FormatFloat(At(vertices, r, 1)),
                   FormatFloat(At(vertices, r, 2)) >> ]

\* (mutant) the index is written as it is, 0-based
FaceItem_zero_based(r, j) == FormatInt(At(faces, r, j))

\* line 109: the index written for corner j of face r, 1-based
FaceItem(r, j) == FormatInt(At(faces, r, j) + 1)

\* lines 108-110: the inner loop over j
RECURSIVE FaceItems(_, _, _)
FaceItems(r, j, face_size) ==
    IF j >= face_size THEN <<>>
    ELSE << FaceItem(r, j) >> \o FaceItems(r, j + 1, face_size)

\* lines 107-111: one face record
FaceLine(r) ==
    [ kind |-> "f", items |-> FaceItems(r, 0, faces.shape[2]) ]

IOFrame == UNCHANGED ovars

\* lines 88-98: the stream is opened and the comment line written
write_temp_mesh_open ==
    /\ io_pc = "open"
    /\ out' = << HeaderLine >>
    /\ row' = 0
    /\ io_pc' = "write_vertices"
    /\ UNCHANGED << vertices, faces, V, F, vertices_data, faces_data, ret >>
    /\ IOFrame

\* lines 101-103: one iteration of the vertex loop
write_temp_mesh_vertex ==
    /\ io_pc = "write_vertices"
    /\ row < vertices.shape[1]
    /\ out' = Append(out, VertexLine(row))
    /\ row' = row + 1
    /\ UNCHANGED << vertices, faces, io_pc, V, F, vertices_data, faces_data, ret >>
    /\ IOFrame

\* line 101: the vertex loop ends, the face loop starts at row 0
write_temp_mesh_vertices_done ==
    /\ io_pc = "write_vertices"
    /\ ~(row < vertices.shape[1])
    /\ row' = 0
    /\ io_pc' = "write_faces"
    /\ UNCHANGED << vertices, faces, out, V, F, vertices_data, faces_data, ret >>
    /\ IOFrame

\* lines 106-112: one iteration of the face loop
write_temp_mesh_face ==
    /\ io_pc = "write_faces"
    /\ row < faces.shape[1]
    /\ out' = Append(out, FaceLine(row))
    /\ row' = row + 1
    /\ UNCHANGED << vertices, faces, io_pc, V, F, vertices_data, faces_data, ret >>
    /\ IOFrame

\* lines 106, 114: the face loop ends, the stream is closed
write_temp_mesh_close ==
    /\ io_pc = "write_faces"
    /\ ~(row < faces.shape[1])
    /\ io_pc' = "written"
    /\ UNCHANGED << vertices, faces, out, row, V, F, vertices_data, faces_data, ret >>
    /\ IOFrame

(***************************************************************************)
(* load_mesh_or_pointcloud (meshio.h, outside src/): V holds one column of *)
(* three coordinates per vertex record, F one column per face record with  *)
(* the indices made 0-based.  A file without face records does not say how *)
(* many rows F has: empty_dim stands for the loader's choice.              *)
(***************************************************************************)
IsVertexLine(l) == l.kind = "v"
IsFaceLine(l) == l.kind = "f"

load_mesh_or_pointcloud(lines, empty_dim) ==
    LET vl == SelectSeq(lines, IsVertexLine)
        fl == SelectSeq(lines, IsFaceLine)
        fr == IF fl = <<>> THEN empty_dim ELSE Len(fl[1].items)
    IN [ V |-> [ rows |-> 3, cols |-> Len(vl),
                 at |-> [ jc \in (0..2) \X (0..(Len(vl) - 1)) |->
                            ParseFloat(vl[jc[2] + 1].items[jc[1] + 1]) ] ],
         F |-> [ rows |-> fr, cols |-> Len(fl),
                 at |-> [ jc \in (0..(fr - 1)) \X (0..(Len(fl) - 1)) |->
                            ParseInt(fl[jc[2] + 1].items[jc[1] + 1]) - 1 ] ] ]

\* face rows of a file without face records, as the loader may report them
EmptyFaceDims == { 0, 3, 4 }

\* lines 121-134: the file is loaded and the two buffers are allocated
read_temp_mesh_load(empty_dim) ==
    /\ io_pc = "written"
    /\ LET m == load_mesh_or_pointcloud(out, empty_dim)
       IN /\ V' = m.V
          /\ F' = m.F
    /\ vertices_data' = << >>
    /\ faces_data' = << >>
    /\ row' = 0
    /\ io_pc' = "copy_vertices"
    /\ UNCHANGED << vertices, faces, out, ret >>
    /\ IOFrame

\* buf[k] = v
Store(buf, k, v) == (k :> v) @@ buf

\* the size elements of a buffer: the value written, garbage where none was
Contents(buf, size, garbage) ==
    [ k \in 0..(size - 1) |-> IF k \in DOMAIN buf THEN buf[k] ELSE garbage ]

\* what memory never written may hold
Indeterminate == { 0, -7 }

\* lines 138-140: the inner loop over j for vertex column c
RECURSIVE CopyVertex(_, _, _)
CopyVertex(buf, c, j) ==
    IF j >= V.rows THEN buf
    ELSE CopyVertex(Store(buf, c * 3 + j, V.at[<< j, c >>]), c, j + 1)

\* (mutant) the face buffer is filled column by column
FaceIndex_transposed(c, j) == j * F.cols + c

\* line 146: the index of faces_data the face loop writes
FaceIndex(c, j) == c * F.rows + j

\* lines 145-147: the inner loop over j for face column c
RECURSIVE CopyFace(_, _, _)
CopyFace(buf, c, j) ==
    IF j >= F.rows THEN buf
    ELSE CopyFace(Store(buf, FaceIndex(c, j), F.at[<< j, c >>]), c, j + 1)

\* a write has gone past the end of a buffer of size elements
Overflow(buf, size) == \E k \in DOMAIN buf : k >= size

\* lines 137-141: one iteration of the vertex copy loop.  A write past the
\* end of the buffer (new float[num_vertices * 3], line 133) lands in memory
\* the function does not own: the run goes on, or the process is lost.
read_temp_mesh_copy_vertex ==
    /\ io_pc = "copy_vertices"
    /\ row < V.cols
    /\ vertices_data' = CopyVertex(vertices_data, row, 0)
    /\ row' = row + 1
    /\ io_pc' \in IF Overflow(vertices_data', V.cols * 3)
                  THEN { "copy_vertices", "corrupted" }
                  ELSE { "copy_vertices" }
    /\ UNCHANGED << vertices, faces, out, V, F, faces_data, ret >>
    /\ IOFrame

\* line 137: the vertex copy loop ends
read_temp_mesh_vertices_done ==
    /\ io_pc = "copy_vertices"
    /\ ~(row < V.cols)
    /\ row' = 0
    /\ io_pc' = "copy_faces"
    /\ UNCHANGED << vertices, faces, out, V, F, vertices_data, faces_data, ret >>
    /\ IOFrame

\* lines 144-148: one iteration of the face copy loop, the buffer being
\* new int[num_faces * face_dim] (line 134)
read_temp_mesh_copy_face ==
    /\ io_pc = "copy_faces"
    /\ row < F.cols
    /\ faces_data' = CopyFace(faces_data, row, 0)
    /\ row' = row + 1
    /\ io_pc' \in IF Overflow(faces_data', F.cols * F.rows)
                  THEN { "copy_faces", "corrupted" }
                  ELSE { "copy_faces" }
    /\ UNCHANGED << vertices, faces, out, V, F, vertices_data, ret >>
    /\ IOFrame

\* lines 144, 151-163: the face copy loop ends, the buffers are wrapped as
\* arrays of shape {num_vertices, 3} and {num_faces, face_dim} and returned
\* The arrays hold the elements of the buffers: what was written to an
\* element, or, for an element never written, whatever the memory held.
read_temp_mesh_return(garbage) ==
    /\ io_pc = "copy_faces"
    /\ ~(row < F.cols)
    /\ ret' = [ vertices |-> [ shape |-> << V.cols, 3 >>,
                               data |-> Contents(vertices_data, V.cols * 3, garbage) ],
                faces |-> [ shape |-> << F.cols, F.rows >>,
                            data |-> Contents(faces_data, F.cols * F.rows, garbage) ] ]
    /\ io_pc' = "returned"
    /\ UNCHANGED << vertices, faces, out, row, V, F, vertices_data, faces_data >>
    /\ IOFrame

\* no array is being serialized
IOIdle ==
    /\ vertices = [ shape |-> << 0, 3 >>, rows |-> << >> ]
    /\ faces = [ shape |-> << 0, 3 >>, rows |-> << >> ]
    /\ out = << >>
    /\ io_pc = "off"
    /\ row = 0
    /\ V = << >>
    /\ F = << >>
    /\ vertices_data = << >>
    /\ faces_data = << >>
    /\ ret = << >>

\* the arrays the serializer is run on: rows of whole-number floats, among
\* them values of more than Precision digits; faces of width 3 or 4 whose
\* indices are those of existing vertices
VertexRows ==
    { << 0, 0, 0 >>, << 1, -2, 999999 >>, << 16777215, -1000001, 123450 >> }

FaceRows(n, k) ==
    { [ j \in 1..k |-> (s + j - 1) % n ] : s \in 0..(n - 1) }
    \cup { [ j \in 1..k |-> (s + k - j) % n ] : s \in 0..(n - 1) }

VertexArrays ==
    UNION { { [ shape |-> << n, 3 >>, rows |-> r ] : r \in [1..n -> VertexRows] } :
            n \in 0..MaxVerts }

FaceArrays(n) ==
    UNION { { [ shape |-> << m, k >>, rows |-> r ] : r \in [1..m -> FaceRows(n, k)] } :
            m \in 0..MaxFaces, k \in { 3, 4 } }

\* rows of the vertex matrix and of the face matrix a loader may hand over:
\* MatrixXf and MatrixXu fix neither
VertexDims == { 2, 3, 4 }
FaceDims == { 3, 4 }

\* the meshes read_temp_mesh may be given: n vertices of r coordinates, m
\* faces of k corners, every coordinate a value of its own
LoadedMesh(r, n, k, m) ==
    [ V |-> [ rows |-> r, cols |-> n,
              at |-> [ jc \in (0..(r - 1)) \X (0..(n - 1)) |-> 10 * (jc[2] + 1) + jc[1] ] ],
      F |-> [ rows |-> k, cols |-> m,
              at |-> [ jc \in (0..(k - 1)) \X (0..(m - 1)) |-> (jc[1] + jc[2]) % (n + 1) ] ] ]

LoadedMeshes ==
    { LoadedMesh(r, n, k, m) :
        r \in VertexDims, n \in 0..MaxVerts, k \in FaceDims, m \in 0..MaxFaces }

(***************************************************************************)
(* Specifications.                                                         *)
(***************************************************************************)
InitFiles == [ p \in { << "a.obj" >> } |-> UserContent ]

Init ==
    /\ fs = InitFiles
    /\ clock = 0
    /\ env \in EnvChoices
    /\ thread_hash = [ t \in Threads |-> IF t = MainThread THEN "h1" ELSE "h2" ]
    /\ nprocs = -1
    /\ gen = 0
    /\ ncalls = 0
    /\ pc = [ t \in Threads |-> "idle" ]
    /\ call = [ t \in Threads |-> NoCall ]
    /\ IOIdle

Steps(t) ==
    \/ \E ok \in BOOLEAN, ts \in 0..MaxClock, r \in RandVals :
           remesh_gen_input(t, ok, ts, r)
    \/ \E ok \in BOOLEAN, ts \in 0..MaxClock, r \in RandVals :
           remesh_gen_output(t, ok, ts, r)
    \/ \E ok \in BOOLEAN : remesh_write(t, ok)
    \/ \E ok \in BOOLEAN : remesh_engine(t, ok)
    \/ \E ok \in BOOLEAN : remesh_read(t, ok)
    \/ \E ok \in BOOLEAN : TempFile_dtor(t, ok)
    \/ \E ok \in BOOLEAN : remesh_file_engine(t, ok)
    \/ \E ok \in BOOLEAN : remesh_file_read(t, ok)

\* the calls of one thread, with every argument combination
Next ==
    \/ \E vs \in VertexShapes, fs_ \in FaceShapes, p \in ParamChoices :
           remesh(MainThread, vs, fs_, p)
    \/ \E i \in UserPaths, o \in UserPaths, p \in ParamChoices :
           remesh_file(MainThread, i, o, p)
    \/ Steps(MainThread)
    \/ Return(MainThread)

Spec == Init /\ [][Next]_vars

\* one call per thread, the calls interleaved; well-formed arrays, default
\* parameters; the hashes of two threads' identities are equal or differ
InitMT ==
    /\ fs = InitFiles
    /\ clock = 0
    /\ env = [TMPDIR |-> <<>>, TEMP |-> <<>>, TMP |-> <<>>, WIN32 |-> FALSE]
    /\ thread_hash \in { h \in [Threads -> HashVals] : h[MainThread] = "h1" }
    /\ nprocs = -1
    /\ gen = 0
    /\ ncalls = 0
    /\ pc = [ t \in Threads |-> "idle" ]
    /\ call = [ t \in Threads |-> NoCall ]
    /\ IOIdle

NextMT ==
    \/ \E t \in Threads :
           remesh(t, [ndim |-> 2, cols |-> 3], [ndim |-> 2, cols |-> 3], DefaultParams)
    \/ \E t \in Threads :
           remesh_file(t, << "a.obj" >>, << "b.obj" >>, DefaultParams)
    \/ \E t \in Threads : Steps(t)

SpecMT == InitMT /\ [][NextMT]_vars

\* write_temp_mesh on an array pair, then read_temp_mesh on the file written
InitIO ==
    /\ fs = InitFiles
    /\ clock = 0
    /\ env = [TMPDIR |-> <<>>, TEMP |-> <<>>, TMP |-> <<>>, WIN32 |-> FALSE]
    /\ thread_hash = [ t \in Threads |-> IF t = MainThread THEN "h1" ELSE "h2" ]
    /\ nprocs = -1
    /\ gen = 0
    /\ ncalls = 0
    /\ pc = [ t \in Threads |-> "idle" ]
    /\ call = [ t \in Threads |-> NoCall ]
    /\ vertices \in VertexArrays
    /\ faces \in FaceArrays(vertices.shape[1])
    /\ out = << >>
    /\ io_pc = "open"
    /\ row = 0
    /\ V = << >>
    /\ F = << >>
    /\ vertices_data = << >>
    /\ faces_data = << >>
    /\ ret = << >>

NextIO ==
    \/ write_temp_mesh_open
    \/ write_temp_mesh_vertex
    \/ write_temp_mesh_vertices_done
    \/ write_temp_mesh_face
    \/ write_temp_mesh_close
    \/ \E d \in EmptyFaceDims : read_temp_mesh_load(d)
    \/ read_temp_mesh_copy_vertex
    \/ read_temp_mesh_vertices_done
    \/ read_temp_mesh_copy_face
    \/ \E g \in Indeterminate : read_temp_mesh_return(g)

SpecIO == InitIO /\ [][NextIO]_vars

\* read_temp_mesh on whatever mesh the loader hands over, from the
\* allocation of the two buffers (line 134) on
InitRead ==
    /\ fs = InitFiles
    /\ clock = 0
    /\ env = [TMPDIR |-> <<>>, TEMP |-> <<>>, TMP |-> <<>>, WIN32 |-> FALSE]
    /\ thread_hash = [ t \in Threads |-> IF t = MainThread THEN "h1" ELSE "h2" ]
    /\ nprocs = -1
    /\ gen = 0
    /\ ncalls = 0
    /\ pc = [ t \in Threads |-> "idle" ]
    /\ call = [ t \in Threads |-> NoCall ]
    /\ vertices = [ shape |-> << 0, 3 >>, rows |-> << >> ]
    /\ faces = [ shape |-> << 0, 3 >>, rows |-> << >> ]
    /\ out = << >>
    /\ \E m \in LoadedMeshes : V = m.V /\ F = m.F
    /\ io_pc = "copy_vertices"
    /\ row = 0
    /\ vertices_data = << >>
    /\ faces_data = << >>
    /\ ret = << >>

NextRead ==
    \/ read_temp_mesh_copy_vertex
    \/ read_temp_mesh_vertices_done
    \/ read_temp_mesh_copy_face
    \/ \E g \in Indeterminate : read_temp_mesh_return(g)

SpecRead == InitRead /\ [][NextRead]_vars

\* remesh calls of one thread under every environment
InitEnv ==
    /\ fs = InitFiles
    /\ clock = 0
    /\ env \in AllEnvs
    /\ thread_hash = [ t \in Threads |-> IF t = MainThread THEN "h1" ELSE "h2" ]
    /\ nprocs = -1
    /\ gen = 0
    /\ ncalls = 0
    /\ pc = [ t \in Threads |-> "idle" ]
    /\ call = [ t \in Threads |-> NoCall ]
    /\ IOIdle

NextEnv ==
    \/ remesh(MainThread, [ndim |-> 2, cols |-> 3], [ndim |-> 2, cols |-> 4], DefaultParams)
    \/ \E ok \in BOOLEAN, ts \in 0..MaxClock, r \in RandVals :
           remesh_gen_input(MainThread, ok, ts, r)
    \/ \E ok \in BOOLEAN, ts \in 0..MaxClock, r \in RandVals :
           remesh_gen_output(MainThread, ok, ts, r)
    \/ \E ok \in BOOLEAN : remesh_write(MainThread, ok)
    \/ \E ok \in BOOLEAN : remesh_engine(MainThread, ok)
    \/ \E ok \in BOOLEAN : remesh_read(MainThread, ok)
    \/ \E ok \in BOOLEAN : TempFile_dtor(MainThread, ok)
    \/ Return(MainThread)

SpecEnv == InitEnv /\ [][NextEnv]_vars


(***************************************************************************)
(* Claims about the orchestration.                                         *)
(***************************************************************************)
Returned(t) == pc[t] = "done"

\* the temporary paths a call has generated so far
TempPaths(c) ==
    IF c.kind = "remesh" THEN { c.input_path, c.output_path } \ { NoPath } ELSE {}

\* the outcomes of the std::remove calls a call made on a path
RemoveOutcomes(c, path) ==
    { c.removes[i][2] : i \in { j \in DOMAIN c.removes : c.removes[j][1] = path } }

\* the file at path holds what call c (its serializer, or the engine on its
\* behalf) wrote there
OwnFile(c, path) == Exists(path) /\ fs[path][2] = c.id

\* C1 (as claimed): once a remesh call has returned, whichever step it ended
\* at, no file exists at either temporary path the call generated.
C1_NoTempFileLeft ==
    \A t \in Threads :
        Returned(t) => \A p \in TempPaths(call[t]) : ~Exists(p)

\* C1 (amended): once a remesh call has returned, whichever step it ended at,
\* std::remove has been called exactly once on every temporary path the call
\* generated (output first, input second), and a file the call wrote at such
\* a path is still there only if that std::remove was refused by the system.
C1_BestEffortCleanup ==
    \A t \in Threads :
        Returned(t) /\ call[t].kind = "remesh" =>
            LET c == call[t]
            IN /\ [ i \in DOMAIN c.removes |-> c.removes[i][1] ] =
                    (IF c.output_path # NoPath THEN << c.output_path >> ELSE <<>>)
                    \o (IF c.input_path # NoPath THEN << c.input_path >> ELSE <<>>)
               /\ \A p \in TempPaths(c) :
                      OwnFile(c, p) => RemoveOutcomes(c, p) = { "refused" }

\* a remesh call that failed in the engine has returned after removing the
\* input file it had written
C1_Witness ==
    \E t \in Threads :
        /\ Returned(t) /\ call[t].kind = "remesh" /\ call[t].failed = "engine"
        /\ << "write_temp_mesh", call[t].input_path >> \in call[t].writes
        /\ RemoveOutcomes(call[t], call[t].input_path) = { "removed" }
        /\ ~Exists(call[t].input_path)

BadShapes(c) ==
    c.kind = "remesh" /\ (c.vshape.cols # 3 \/ c.fshape.cols \notin { 3, 4 })

\* C3 (as claimed): remesh with vertices whose column width is not 3, or faces
\* whose row width is neither 3 nor 4, raises ValueError, before any temporary
\* path is generated, any file created or the engine invoked.
C3_ValueErrorBeforeFiles ==
    \A t \in Threads :
        BadShapes(call[t]) =>
            /\ call[t].raised = "ValueError"
            /\ call[t].steps = <<>>
            /\ TempPaths(call[t]) = {}
            /\ call[t].writes = {}
            /\ call[t].engine_calls = <<>>

\* C6 (as claimed): the temporary paths of calls in flight at the same time
\* are pairwise distinct.
InFlight(t) == pc[t] \notin { "idle", "done" }

C6_PathsDistinct ==
    \A t1, t2 \in Threads :
        t1 # t2 /\ InFlight(t1) /\ InFlight(t2) =>
            TempPaths(call[t1]) \cap TempPaths(call[t2]) = {}

\* C6 (amended): the temporary paths of calls running on threads whose
\* identity hashes differ are pairwise distinct, whatever the timestamps and
\* the values drawn from the shared generator, so no such call writes or
\* removes a file at a temporary path of the other; the two paths of one call
\* always differ.
C6_DistinctWhenHashesDiffer ==
    /\ \A t1, t2 \in Threads :
           thread_hash[t1] # thread_hash[t2] =>
               /\ TempPaths(call[t1]) \cap TempPaths(call[t2]) = {}
               /\ \A w \in call[t1].writes : w[2] \notin TempPaths(call[t2])
               /\ \A i \in DOMAIN call[t1].removes :
                      call[t1].removes[i][1] \notin TempPaths(call[t2])
    /\ \A t \in Threads :
           call[t].input_path # NoPath => call[t].input_path # call[t].output_path

\* two calls in flight on threads with different hashes generated their input
\* paths in the same tick and drew the same random number
C6_Witness ==
    \E t1, t2 \in Threads :
        /\ thread_hash[t1] # thread_hash[t2]
        /\ InFlight(t1) /\ InFlight(t2)
        /\ call[t1].kind = "remesh" /\ call[t2].kind = "remesh"
        /\ call[t1].input_path # NoPath /\ call[t2].input_path # NoPath
        /\ call[t1].input_path[7] = call[t2].input_path[7]
        /\ call[t1].input_path[9] = call[t2].input_path[9]
        /\ << "write_temp_mesh", call[t1].input_path >> \in call[t1].writes
        /\ << "write_temp_mesh", call[t2].input_path >> \in call[t2].writes

\* what a remesh_file call leaves alone, apart from output_path
FrameOutsideOutput(c) ==
    /\ c.steps \in { <<>>, << "engine" >>, << "engine", "deserialize" >> }
    /\ c.removes = <<>>
    /\ c.writes \subseteq { << "batch_process", c.output_path >> }
    /\ \A p \in (DOMAIN fs \cup DOMAIN c.before) \ { c.output_path } :
           p \in DOMAIN fs /\ p \in DOMAIN c.before /\ fs[p] = c.before[p]

InputUnchanged(c) ==
    /\ c.input_path \in DOMAIN c.before
    /\ Exists(c.input_path)
    /\ fs[c.input_path] = c.before[c.input_path]

\* C7 (as claimed): remesh_file generates no temporary path, creates no file
\* but the one the engine writes at output_path and deletes nothing; after a
\* successful call the file at output_path exists and the file at input_path
\* is unchanged.
C7_FileVariantFrame ==
    \A t \in Threads :
        call[t].kind = "remesh_file" =>
            /\ FrameOutsideOutput(call[t])
            /\ Returned(t) /\ call[t].failed = "none" =>
                   /\ Exists(call[t].output_path)
                   /\ InputUnchanged(call[t])

\* C7 (amended): as claimed, except that the file at input_path is unchanged
\* only when input_path and output_path are different paths; given the same
\* path twice, the engine's result replaces the input.
C7_FileVariantFrameAmended ==
    \A t \in Threads :
        call[t].kind = "remesh_file" =>
            /\ FrameOutsideOutput(call[t])
            /\ Returned(t) /\ call[t].failed = "none" =>
                   /\ Exists(call[t].output_path)
                   /\ fs[call[t].output_path] = << "remeshed", call[t].id >>
                   /\ call[t].input_path # call[t].output_path =>
                          InputUnchanged(call[t])
                   /\ call[t].input_path = call[t].output_path =>
                          ~InputUnchanged(call[t])

\* a successful remesh_file call with two different paths has returned
C7_Witness ==
    \E t \in Threads :
        /\ Returned(t) /\ call[t].kind = "remesh_file" /\ call[t].failed = "none"
        /\ call[t].input_path # call[t].output_path
        /\ call[t].result # <<>>
        /\ Exists(call[t].output_path)

\* C8 (as claimed): a failed remesh_file call returns no arrays and leaves the
\* set of files on disk as it was before the call.
C8_FailedCallLeavesNoFile ==
    \A t \in Threads :
        Returned(t) /\ call[t].kind = "remesh_file" /\ call[t].failed # "none" =>
            /\ call[t].result = <<>>
            /\ DOMAIN fs = DOMAIN call[t].before

\* C8 (amended): a failed remesh_file call returns no arrays and deletes
\* nothing; no file other than output_path is created, changed or removed;
\* when the deserialization failed after the engine succeeded, the file the
\* engine wrote at output_path is left in place.
C8_FailedCallKeepsEngineOutput ==
    \A t \in Threads :
        Returned(t) /\ call[t].kind = "remesh_file" /\ call[t].failed # "none" =>
            /\ call[t].result = <<>>
            /\ FrameOutsideOutput(call[t])
            /\ call[t].failed \in { "engine", "deserialize" }
            /\ call[t].failed = "deserialize" =>
                   /\ Exists(call[t].output_path)
                   /\ fs[call[t].output_path] = << "remeshed", call[t].id >>

\* a remesh_file call whose deserialization failed has returned and left a
\* file at output_path that did not exist before the call
C8_Witness ==
    \E t \in Threads :
        /\ Returned(t) /\ call[t].kind = "remesh_file"
        /\ call[t].failed = "deserialize"
        /\ call[t].output_path \notin DOMAIN call[t].before
        /\ Exists(call[t].output_path)

\* C10: in remesh and in remesh_file the engine is invoked at most once and
\* receives, in each of its slots, the caller's argument of the same name, and
\* the call's own input and output paths.
C10_ParamsPassThrough ==
    \A t \in Threads :
        /\ Len(call[t].engine_calls) <= 1
        /\ \A i \in DOMAIN call[t].engine_calls :
               LET got == call[t].engine_calls[i]
                   p == call[t].params
               IN /\ got.input = call[t].input_path
                  /\ got.output = call[t].output_path
                  /\ got.rosy = p.rosy
                  /\ got.posy = p.posy
                  /\ got.target_edge_length = p.target_edge_length
                  /\ got.target_face_count = p.target_face_count
                  /\ got.target_vertex_count = p.target_vertex_count
                  /\ got.crease_angle = p.crease_angle
                  /\ got.extrinsic = p.extrinsic
                  /\ got.align_to_boundaries = p.align_to_boundaries
                  /\ got.smooth_iterations = p.smooth_iterations
                  /\ got.knn_points = p.knn_points
                  /\ got.pure_quad = p.pure_quad
                  /\ got.deterministic = p.deterministic

\* the engine has been invoked by remesh with parameters outside any sensible
\* range
C10_Witness ==
    \E t \in Threads :
        /\ call[t].kind = "remesh"
        /\ call[t].params = OddParams
        /\ Len(call[t].engine_calls) = 1
        /\ call[t].engine_calls[1].knn_points = -3


(***************************************************************************)
(* Claims about the serializer and the deserializer.                       *)
(***************************************************************************)
Closed == io_pc \notin { "open", "write_vertices", "write_faces" }

NumVertices == vertices.shape[1]
NumFaces == faces.shape[1]
FaceSize == faces.shape[2]

\* the vertex records and the face records the claim describes
ExpectedVertexRecords ==
    [ r \in 1..NumVertices |->
        [ kind |-> "v",
          items |-> [ c \in 1..3 |-> FormatFloat(vertices.rows[r][c]) ] ] ]

ExpectedFaceRecords ==
    [ r \in 1..NumFaces |->
        [ kind |-> "f",
          items |-> [ c \in 1..FaceSize |-> << faces.rows[r][c] + 1 >> ] ] ]

\* C4 (as claimed): the file written holds one vertex record per vertex row,
\* in input order, then one face record per face row, in input order, every
\* index being the array index plus one, and nothing else.
C4_FileIsVerticesThenFaces ==
    Closed => out = ExpectedVertexRecords \o ExpectedFaceRecords

\* C4 (amended): the file written holds one comment line, then one vertex
\* record per vertex row, in input order, then one face record per face row,
\* in input order, every index being the array index plus one, and nothing
\* else; while it is written the file is a prefix of that, and no other file
\* is created, changed or removed.
C4_FileIsCommentVerticesFaces ==
    LET whole == << HeaderLine >> \o ExpectedVertexRecords \o ExpectedFaceRecords
    IN /\ Closed => out = whole
       /\ out = SubSeq(whole, 1, Len(out))
       /\ fs = InitFiles

\* a file with two vertex records and two face records of width 4 is closed
C4_Witness ==
    /\ io_pc = "written"
    /\ NumVertices = 2 /\ NumFaces = 2 /\ FaceSize = 4
    /\ faces.rows[1] # faces.rows[2]
    /\ Len(out) = 5
    /\ out[4].items[2] = << faces.rows[1][2] + 1 >>

\* element (r, c) of an array returned by read_temp_mesh, row-major
Elem(a, r, c) == a.data[r * a.shape[2] + c]

\* C5 (as claimed): writing a face array with indices in [0, N) and reading
\* the file back yields a face array with the same number of rows, the same
\* row width and the same 0-based index at every position, row-major.
C5_FacesRoundTrip ==
    io_pc = "returned" =>
        /\ ret.faces.shape = faces.shape
        /\ DOMAIN ret.faces.data = 0..(NumFaces * FaceSize - 1)
        /\ \A r \in 0..(NumFaces - 1), c \in 0..(FaceSize - 1) :
               Elem(ret.faces, r, c) = At(faces, r, c)

\* C5 (amended): for a face array with at least one row, as claimed; for a
\* face array without rows the result has no rows either, and its row width
\* is the loader's, not the array's.
C5_FacesRoundTripNonEmpty ==
    io_pc = "returned" =>
        /\ ret.faces.shape[1] = NumFaces
        /\ DOMAIN ret.faces.data = 0..(NumFaces * ret.faces.shape[2] - 1)
        /\ NumFaces >= 1 =>
               /\ ret.faces.shape[2] = FaceSize
               /\ \A r \in 0..(NumFaces - 1), c \in 0..(FaceSize - 1) :
                      Elem(ret.faces, r, c) = At(faces, r, c)

\* two different quads over two vertices have come back
C5_Witness ==
    /\ io_pc = "returned"
    /\ NumFaces = 2 /\ FaceSize = 4
    /\ faces.rows[1] # faces.rows[2]
    /\ Elem(ret.faces, 1, 2) = At(faces, 1, 2)
    /\ Elem(ret.faces, 0, 1) # Elem(ret.faces, 1, 1)

\* C9 (as claimed): every coordinate read back from the file is the 32-bit
\* float that was written.
C9_CoordinatesRoundTrip ==
    io_pc = "returned" =>
        /\ ret.vertices.shape = vertices.shape
        /\ \A r \in 0..(NumVertices - 1), c \in 0..2 :
               Elem(ret.vertices, r, c) = At(vertices, r, c)


(***************************************************************************)
(* Claims about the Temporary Path Generator.                              *)
(***************************************************************************)
\* the root the claim describes: the first of TMPDIR, TEMP, TMP that is set,
\* the platform default when none is
RootIs(root) ==
    /\ env.TMPDIR # <<>> => root = env.TMPDIR[1]
    /\ env.TMPDIR = <<>> /\ env.TEMP # <<>> => root = env.TEMP[1]
    /\ env.TMPDIR = <<>> /\ env.TEMP = <<>> /\ env.TMP # <<>> => root = env.TMP[1]
    /\ env.TMPDIR = <<>> /\ env.TEMP = <<>> /\ env.TMP = <<>> =>
           root = (IF env.WIN32 THEN "C:\\Temp" ELSE "/tmp")

\* path has the form <root>/<prefix>_<thread>_<timestamp>_<random><extension>
PathForm(path, t, prefix) ==
    /\ Len(path) = 10
    /\ RootIs(path[1])
    /\ path[2] = "/" /\ path[3] = prefix /\ path[4] = "_"
    /\ path[5] = thread_hash[t]
    /\ path[6] = "_"
    /\ path[7] \in Nat /\ path[7] <= clock
    /\ path[8] = "_"
    /\ path[9] \in RandVals
    /\ path[10] = ".obj"

\* C11: every temporary path a remesh call generates has the form
\* <root>/<prefix>_<thread>_<timestamp>_<random><extension>, where root is the
\* value of the first of TMPDIR, TEMP, TMP that is set and the platform default
\* (/tmp, C:\Temp on Windows) when none is; generating the paths creates,
\* changes and removes no file.
C11_TempDirOrderNoIO ==
    /\ [](\A t \in Threads :
            /\ call[t].input_path # NoPath /\ call[t].kind = "remesh" =>
                   PathForm(call[t].input_path, t, "pyim_input")
            /\ call[t].output_path # NoPath /\ call[t].kind = "remesh" =>
                   PathForm(call[t].output_path, t, "pyim_output"))
    /\ [][\A t \in Threads :
            pc[t] \in { "gen_in", "gen_out" } /\ pc'[t] # pc[t] => fs' = fs]_vars

\* TMPDIR is unset, TEMP and TMP are set, and a call has generated both paths
\* under the value of TEMP
C11_Witness ==
    /\ env.TMPDIR = <<>> /\ env.TEMP # <<>> /\ env.TMP # <<>>
    /\ pc[MainThread] = "write"
    /\ call[MainThread].input_path[1] = env.TEMP[1]
    /\ call[MainThread].output_path[1] = env.TEMP[1]
    /\ call[MainThread].input_path[3] = "pyim_input"
    /\ call[MainThread].output_path[3] = "pyim_output"


(***************************************************************************)
(* Claims about the order of the steps of remesh.                          *)
(***************************************************************************)
IsPrefix(a, b) == Len(a) <= Len(b) /\ a = SubSeq(b, 1, Len(a))

\* the paths std::remove was called on, in order
RemovedPaths(c) == [ i \in DOMAIN c.removes |-> c.removes[i][1] ]

\* the steps taken so far are the first steps of the fixed order, each taken
\* once; the input file is written by the serializer only and the output file
\* by the engine only; no path is removed twice; nothing is removed before
\* the arrays are built or the call has failed
StepsInOrder(c) ==
    /\ IsPrefix(c.steps, StepOrder)
    /\ Len(c.engine_calls) = (IF Len(c.steps) >= 4 THEN 1 ELSE 0)
    /\ c.writes \subseteq { << "write_temp_mesh", c.input_path >>,
                           << "batch_process", c.output_path >> }
    /\ << "write_temp_mesh", c.input_path >> \in c.writes =>
           Len(c.steps) >= 3 /\ c.steps[3] = "serialize"
    /\ << "batch_process", c.output_path >> \in c.writes =>
           Len(c.steps) >= 4 /\ c.steps[4] = "engine"
    /\ c.result # <<>> => c.steps = StepOrder /\ c.failed = "none"
    /\ \A i, j \in DOMAIN c.removes :
           c.removes[i][1] = c.removes[j][1] => i = j
    /\ c.removes # <<>> => c.failed # "none" \/ c.result # <<>>

\* C12: in every remesh call the input temp file is written and closed before
\* the engine is invoked, the engine has returned before the output temp file
\* is read, and the arrays are fully built before either temp file is
\* removed; each temp file is written once and read once, and removed at most
\* once; a removal is never followed by another step of the call.
C12_StepsInOrder ==
    /\ [](\A t \in Threads : call[t].kind = "remesh" => StepsInOrder(call[t]))
    /\ [][\A t \in Threads :
            call[t].kind = "remesh" /\ call'[t].kind = "remesh" =>
                /\ Len(call'[t].engine_calls) > Len(call[t].engine_calls) =>
                       /\ << "write_temp_mesh", call[t].input_path >> \in call[t].writes
                       /\ call[t].removes = <<>>
                /\ Len(call'[t].steps) = 5 /\ Len(call[t].steps) = 4 =>
                       /\ << "batch_process", call[t].output_path >> \in call[t].writes
                       /\ call[t].removes = <<>>
                /\ call[t].removes # <<>> =>
                       /\ call'[t].steps = call[t].steps
                       /\ call'[t].writes = call[t].writes
                       /\ call'[t].result = call[t].result
                       /\ IsPrefix(call[t].removes, call'[t].removes)]_vars

\* a remesh call has gone through all five steps, built its arrays and then
\* removed the output file and the input file, in this order
C12_Witness ==
    \E t \in Threads :
        /\ Returned(t) /\ call[t].kind = "remesh" /\ call[t].failed = "none"
        /\ call[t].steps = StepOrder
        /\ call[t].result # <<>>
        /\ RemovedPaths(call[t]) = << call[t].output_path, call[t].input_path >>
        /\ call[t].removes[1][2] = "removed" /\ call[t].removes[2][2] = "removed"


(***************************************************************************)
(* Claims about the cleanup and the outcome of a call.                     *)
(***************************************************************************)
\* the exception each failing step of remesh raises
ErrorOf(step) ==
    CASE step \in { "generate_input", "generate_output" } -> "MemoryError"
      [] step \in { "serialize", "engine", "deserialize" } -> "RuntimeError"

\* C13: the cleanup never changes the outcome of a remesh call: a TempFile
\* destructor leaves the arrays built and the error raised as they were,
\* whether the file is removed, absent or not removable; it runs for every
\* TempFile constructed, on every exit path; the caller gets exactly the
\* arrays the deserializer built from the output file, or exactly the error
\* of the failing step.
C13_CleanupKeepsOutcome ==
    /\ [][\A t \in Threads :
            pc[t] \in { "dtor_out", "dtor_in" } /\ pc'[t] # pc[t] =>
                /\ call'[t].result = call[t].result
                /\ call'[t].raised = call[t].raised
                /\ call'[t].failed = call[t].failed
                /\ Len(call'[t].removes) = Len(call[t].removes) + 1]_vars
    /\ [](\A t \in Threads :
            Returned(t) /\ call[t].kind = "remesh" /\ call[t].failed # "validate" =>
                LET c == call[t]
                IN /\ { c.removes[i][1] : i \in DOMAIN c.removes } = TempPaths(c)
                   /\ c.failed = "none" =>
                          c.raised = "none" /\ c.result = << << "remeshed", c.id >> >>
                   /\ c.failed # "none" =>
                          c.raised = ErrorOf(c.failed) /\ c.result = <<>>)

\* a remesh call has returned its arrays although neither temp file could be
\* removed: both files are still there
C13_Witness ==
    \E t \in Threads :
        /\ Returned(t) /\ call[t].kind = "remesh" /\ call[t].failed = "none"
        /\ call[t].result # <<>>
        /\ call[t].removes = << << call[t].output_path, "refused" >>,
                                << call[t].input_path, "refused" >> >>
        /\ Exists(call[t].input_path) /\ Exists(call[t].output_path)


C15_WritesInsideBuffers ==
    /\ V # << >> =>
           /\ ~Overflow(vertices_data, V.cols * 3)
           /\ ~Overflow(faces_data, F.cols * F.rows)
    /\ io_pc = "returned" =>
           /\ DOMAIN vertices_data = 0..(V.cols * 3 - 1)
           /\ DOMAIN faces_data = 0..(F.cols * F.rows - 1)

====
